---------------------------- MODULE Spec2Model ----------------------------
(***************************************************************************)
(* A model of the YTubeSaver backend (backend/server.js): the URL          *)
(* classifier, the /api/video-info, /api/download and /api/cleanup         *)
(* handlers, the external tool processes they start through                *)
(* child_process.exec, and the flat downloads directory they share.        *)
(*                                                                         *)
(* Strings are TLA+ strings; a character is a string of length one.        *)
(* Time is in milliseconds since the model's epoch.                        *)
(***************************************************************************)
EXTENDS Integers, Sequences, FiniteSets, TLC

(***************************************************************************)
(* Bounds of the model.                                                    *)
(***************************************************************************)
\* Number of HTTP requests to /api/video-info and /api/download in a run.
MaxReqs == 1

(***************************************************************************)
(* Program constants.                                                      *)
(***************************************************************************)
\* exec(cmd, { timeout: 30000 }, ...) of /api/video-info
INFO_TIMEOUT == 30000
\* exec(cmd, { timeout: 300000 }, ...) of /api/download
DOWNLOAD_TIMEOUT == 300000
\* if (fileAge > 3600000) of /api/cleanup
CLEANUP_AGE == 3600000
\* the length of a YouTube id, {11} in the patterns
YT_ID_LEN == 11

(***************************************************************************)
(* Strings.                                                                *)
(***************************************************************************)
CharAt(s, i) == SubSeq(s, i, i)

\* lit occurs in s at position p
LitAt(s, p, lit) ==
    /\ p >= 1
    /\ p + Len(lit) - 1 <= Len(s)
    /\ SubSeq(s, p, p + Len(lit) - 1) = lit

\* String.prototype.startsWith
StartsWith(s, prefix) == LitAt(s, 1, prefix)

\* String.prototype.includes
Includes(s, sub) == \E p \in 1..(Len(s) + 1) : LitAt(s, p, sub)

Min(S) == CHOOSE x \in S : \A y \in S : x <= y

(***************************************************************************)
(* The URL classifier: isValidUrl and extractVideoId.                      *)
(***************************************************************************)
\* the character class [a-zA-Z0-9_-]
IdChars ==
    { "a", "b", "c", "d", "e", "f", "g", "h", "i", "j", "k", "l", "m",
      "n", "o", "p", "q", "r", "s", "t", "u", "v", "w", "x", "y", "z",
      "A", "B", "C", "D", "E", "F", "G", "H", "I", "J", "K", "L", "M",
      "N", "O", "P", "Q", "R", "S", "T", "U", "V", "W", "X", "Y", "Z",
      "0", "1", "2", "3", "4", "5", "6", "7", "8", "9", "_", "-" }

\* the character class [a-zA-Z0-9_.] of the user name of a stories URL
UserChars == (IdChars \ {"-"}) \cup {"."}

\* the character class [0-9]
Digits == {"0", "1", "2", "3", "4", "5", "6", "7", "8", "9"}

\* A pattern: (?:https?:\/\/)? then, when sub is not empty, the optional
\* group (?:sub)? then the literal host, then, when param is not empty,
\* .*[?&] and the literal param, then, when kinds is not empty, one of the
\* alternatives kinds and a "/", then the captured id: idLen characters
\* of the class, or one or more of them (greedy) when idLen = 0; then,
\* when rest, \??.* (which matches whatever follows).
YtWatchPattern ==
    [sub |-> "www.", host |-> "youtube.com/watch?v=", param |-> "", kinds |-> <<>>,
     idLen |-> YT_ID_LEN, rest |-> FALSE]

YtShortsPattern ==
    [sub |-> "www.", host |-> "youtube.com/shorts/", param |-> "", kinds |-> <<>>,
     idLen |-> YT_ID_LEN, rest |-> FALSE]

YtShortLinkPattern ==
    [sub |-> "", host |-> "youtu.be/", param |-> "", kinds |-> <<>>,
     idLen |-> YT_ID_LEN, rest |-> FALSE]

IgPattern ==
    [sub |-> "www.", host |-> "instagram.com/", param |-> "", kinds |-> <<"p", "reel", "tv">>,
     idLen |-> 0, rest |-> FALSE]

\* positions after the optional scheme, for a match that starts at i
AfterScheme(s, i) ==
    {i} \cup (IF LitAt(s, i, "http://") THEN {i + 7} ELSE {})
        \cup (IF LitAt(s, i, "https://") THEN {i + 8} ELSE {})

AfterWww(s, P, pat) ==
    IF pat.sub # ""
    THEN P \cup {p + Len(pat.sub) : p \in {q \in P : LitAt(s, q, pat.sub)}}
    ELSE P

AfterHost(s, P, pat) ==
    {p + Len(pat.host) : p \in {q \in P : LitAt(s, q, pat.host)}}

\* positions after .*[?&]param
AfterParam(s, P, pat) ==
    IF pat.param = "" \/ P = {} THEN P
    ELSE {q + 1 + Len(pat.param) :
            q \in {x \in 1..Len(s) : /\ \E p \in P : x >= p
                                     /\ CharAt(s, x) \in {"?", "&"}
                                     /\ LitAt(s, x + 1, pat.param)}}

AfterKind(s, P, pat) ==
    IF pat.kinds = <<>> THEN P
    ELSE UNION {{p + Len(pat.kinds[k]) + 1 :
                    p \in {q \in P : LitAt(s, q, pat.kinds[k] \o "/")}} :
                k \in 1..Len(pat.kinds)}

\* the number of class characters of s from position p on
RECURSIVE IdRun(_, _)
IdRun(s, p) ==
    IF p <= Len(s) /\ CharAt(s, p) \in IdChars THEN 1 + IdRun(s, p + 1) ELSE 0

\* the captured id of a match whose id starts at p, as a set (empty: no match)
IdAt(s, p, pat) ==
    LET run == IdRun(s, p) IN
    IF pat.idLen > 0
    THEN IF run >= pat.idLen THEN {[at |-> p, id |-> SubSeq(s, p, p + pat.idLen - 1)]} ELSE {}
    ELSE IF run >= 1 THEN {[at |-> p, id |-> SubSeq(s, p, p + run - 1)]} ELSE {}

\* the ways pat matches from i on: where the id starts, and the id
MatchesAt(s, i, pat) ==
    UNION {IdAt(s, p, pat) :
              p \in AfterKind(s, AfterParam(s,
                        AfterHost(s, AfterWww(s, AfterScheme(s, i), pat), pat), pat), pat)}

\* the id the match that starts at i captures: .* is greedy, the id that
\* starts last is the one captured
CapturedAt(s, i, pat) ==
    (CHOOSE c \in MatchesAt(s, i, pat) : \A d \in MatchesAt(s, i, pat) : d.at <= c.at).id

\* the leftmost match of pat in s that starts at i or later, if any.
\* [matched |-> FALSE, id |-> ""] stands for null.
RECURSIVE MatchFrom(_, _, _)
MatchFrom(s, i, pat) ==
    IF i > Len(s) + 1 THEN [matched |-> FALSE, id |-> ""]
    ELSE IF MatchesAt(s, i, pat) # {}
         THEN [matched |-> TRUE, id |-> CapturedAt(s, i, pat)]
    ELSE MatchFrom(s, i + 1, pat)

\* RegExp.prototype.exec without the g flag, and String.prototype.match
RegexMatch(s, pat) == MatchFrom(s, 1, pat)

\* RegExp.prototype.test
RegexTest(s, pat) == RegexMatch(s, pat).matched

\* A url of a request body: absent (kind "missing"), a string, or an array
\* holding one string. ToString of such an array is the string it holds.
UrlText(u) == u.text

\* !url
Falsy(u) == u.kind = "missing" \/ (u.kind = "string" /\ u.text = "")

\* isValidUrl without the pattern of the short links.
isValidUrlNoShortLink(u) ==
    \E pat \in {YtWatchPattern, YtShortsPattern, IgPattern} :
        RegexTest(UrlText(u), pat)

isValidUrl(u) ==
    \E pat \in {YtWatchPattern, YtShortsPattern, YtShortLinkPattern, IgPattern} :
        RegexTest(UrlText(u), pat)

\* extractVideoId(url): [thrown, some, id]. url.match is not a function of
\* an array: the call throws a TypeError. some = FALSE stands for null.
extractVideoId(u) ==
    IF u.kind # "string" THEN [thrown |-> TRUE, some |-> FALSE, id |-> ""]
    ELSE IF RegexTest(UrlText(u), YtWatchPattern)
         THEN [thrown |-> FALSE, some |-> TRUE, id |-> RegexMatch(UrlText(u), YtWatchPattern).id]
    ELSE IF RegexTest(UrlText(u), YtShortsPattern)
         THEN [thrown |-> FALSE, some |-> TRUE, id |-> RegexMatch(UrlText(u), YtShortsPattern).id]
    ELSE IF RegexTest(UrlText(u), YtShortLinkPattern)
         THEN [thrown |-> FALSE, some |-> TRUE, id |-> RegexMatch(UrlText(u), YtShortLinkPattern).id]
    ELSE IF RegexTest(UrlText(u), IgPattern)
         THEN [thrown |-> FALSE, some |-> TRUE, id |-> RegexMatch(UrlText(u), IgPattern).id]
    ELSE [thrown |-> FALSE, some |-> FALSE, id |-> ""]

(***************************************************************************)
(* The URL classifiers of the clients. Their url is a string. A result     *)
(* [some |-> FALSE, id |-> ""] stands for null.                            *)
(***************************************************************************)
YtMobilePattern ==
    [sub |-> "m.", host |-> "youtube.com/watch?v=", param |-> "", kinds |-> <<>>,
     idLen |-> YT_ID_LEN, rest |-> FALSE]

YtEmbedPattern ==
    [sub |-> "www.", host |-> "youtube.com/embed/", param |-> "", kinds |-> <<>>,
     idLen |-> YT_ID_LEN, rest |-> FALSE]

YtVPattern ==
    [sub |-> "www.", host |-> "youtube.com/v/", param |-> "", kinds |-> <<>>,
     idLen |-> YT_ID_LEN, rest |-> FALSE]

YtWatchParamPattern ==
    [sub |-> "www.", host |-> "youtube.com/watch?", param |-> "v=", kinds |-> <<>>,
     idLen |-> YT_ID_LEN, rest |-> FALSE]

YtShortsRestPattern ==
    [sub |-> "www.", host |-> "youtube.com/shorts/", param |-> "", kinds |-> <<>>,
     idLen |-> YT_ID_LEN, rest |-> TRUE]

IgPostPattern ==
    [sub |-> "www.", host |-> "instagram.com/", param |-> "", kinds |-> <<"p">>,
     idLen |-> 0, rest |-> FALSE]

IgReelPattern ==
    [sub |-> "www.", host |-> "instagram.com/", param |-> "", kinds |-> <<"reel">>,
     idLen |-> 0, rest |-> FALSE]

IgTvPattern ==
    [sub |-> "www.", host |-> "instagram.com/", param |-> "", kinds |-> <<"tv">>,
     idLen |-> 0, rest |-> FALSE]

IgPostRestPattern ==
    [sub |-> "www.", host |-> "instagram.com/", param |-> "", kinds |-> <<"p">>,
     idLen |-> 0, rest |-> TRUE]

IgReelRestPattern ==
    [sub |-> "www.", host |-> "instagram.com/", param |-> "", kinds |-> <<"reel">>,
     idLen |-> 0, rest |-> TRUE]

\* the number of characters of the class cls of s from position p on
RECURSIVE ClassRun(_, _, _)
ClassRun(s, p, cls) ==
    IF p <= Len(s) /\ CharAt(s, p) \in cls THEN 1 + ClassRun(s, p + 1, cls) ELSE 0

\* the stories pattern
\* (?:https?:\/\/)?(?:www\.)?instagram\.com\/stories\/([a-zA-Z0-9_.]+)\/([0-9]+)
\* tested on s: "/" is not of the class of the user name, so the name is
\* the whole run of class characters
StoriesTest(s) ==
    \E p \in 1..Len(s) :
        /\ LitAt(s, p, "instagram.com/stories/")
        /\ LET u == p + Len("instagram.com/stories/")
               n == ClassRun(s, u, UserChars)
           IN  /\ n >= 1
               /\ LitAt(s, u + n, "/")
               /\ ClassRun(s, u + n + 1, Digits) >= 1

\* for (const pattern of patterns) { const match = url.match(pattern);
\*   if (match && match[1]) return match[1]; }  return null;
RECURSIVE FirstCapture(_, _)
FirstCapture(s, pats) ==
    IF pats = <<>> THEN [some |-> FALSE, id |-> ""]
    ELSE IF RegexTest(s, Head(pats)) /\ RegexMatch(s, Head(pats)).id # ""
         THEN [some |-> TRUE, id |-> RegexMatch(s, Head(pats)).id]
    ELSE FirstCapture(s, Tail(pats))

\* src/services/downloadService.ts: DownloadService.isValidUrl
Src_isValidUrl(s) ==
    \E pat \in {YtWatchPattern, YtShortsPattern, YtShortLinkPattern, YtMobilePattern,
                IgPattern} :
        RegexTest(s, pat)

\* src/services/downloadService.ts: DownloadService.extractVideoId
Src_extractVideoId(s) ==
    FirstCapture(s, <<YtWatchPattern, YtShortsPattern, YtShortLinkPattern, YtMobilePattern,
                      IgPattern>>)

\* src/services/downloadService.ts: DownloadService.getPlatform
Src_getPlatform(s) ==
    IF Includes(s, "youtube.com") \/ Includes(s, "youtu.be") THEN "youtube"
    ELSE IF Includes(s, "instagram.com") THEN "instagram"
    ELSE "null"

\* the patterns of isYouTubeUrl, extractYouTubeId and
\* YouTubeUtils.extractVideoId, in their order
YouTubePatterns ==
    <<YtWatchPattern, YtShortsPattern, YtShortLinkPattern, YtEmbedPattern, YtVPattern,
      YtWatchParamPattern, YtShortsRestPattern>>

\* YouTubeUtils.extractVideoId
YouTubeUtils_extractVideoId(s) == FirstCapture(s, YouTubePatterns)

\* YouTubeUtils.isValidYouTubeUrl
YouTubeUtils_isValidYouTubeUrl(s) == YouTubeUtils_extractVideoId(s).some

\* ytube-saver-app: DownloadService.isYouTubeUrl
App_isYouTubeUrl(s) ==
    \E k \in 1..Len(YouTubePatterns) : RegexTest(s, YouTubePatterns[k])

\* ytube-saver-app: DownloadService.isInstagramUrl
App_isInstagramUrl(s) ==
    \/ \E pat \in {IgPostPattern, IgReelPattern, IgTvPattern, IgPostRestPattern,
                   IgReelRestPattern} :
          RegexTest(s, pat)
    \/ StoriesTest(s)

\* ytube-saver-app: DownloadService.extractYouTubeId
App_extractYouTubeId(s) == FirstCapture(s, YouTubePatterns)

\* ytube-saver-app: DownloadService.extractInstagramId
App_extractInstagramId(s) == FirstCapture(s, <<IgPostPattern, IgReelPattern, IgTvPattern>>)

\* ytube-saver-app: DownloadService.detectPlatform
App_detectPlatform(s) ==
    IF App_isYouTubeUrl(s) THEN "youtube"
    ELSE IF App_isInstagramUrl(s) THEN "instagram"
    ELSE "unknown"

(***************************************************************************)
(* Dates, file names and command lines.                                    *)
(***************************************************************************)
Pad2(n) == IF n < 10 THEN "0" \o ToString(n) ELSE ToString(n)

Pad3(n) == IF n < 10 THEN "00" \o ToString(n)
           ELSE IF n < 100 THEN "0" \o ToString(n) ELSE ToString(n)

\* new Date().toISOString() at time t of the model's first day, which is
\* taken to be 2026-01-01 (UTC)
ToISOString(t) ==
    "2026-01-01T" \o Pad2((t \div 3600000) % 24) \o ":" \o Pad2((t \div 60000) % 60)
        \o ":" \o Pad2((t \div 1000) % 60) \o "." \o Pad3(t % 1000) \o "Z"

\* ReplaceColonDot without the g flag: the first occurrence only.
ReplaceColonDotOnce(s) ==
    LET at == {p \in 1..Len(s) : CharAt(s, p) \in {":", "."}} IN
    IF at = {} THEN s
    ELSE SubSeq(s, 1, Min(at) - 1) \o "-" \o SubSeq(s, Min(at) + 1, Len(s))

\* s.replace(/[:.]/g, '-')
RECURSIVE ReplaceColonDot(_)
ReplaceColonDot(s) ==
    IF s = "" THEN ""
    ELSE (IF Head(s) \in {":", "."} THEN "-" ELSE Head(s)) \o ReplaceColonDot(Tail(s))

\* s.replace(from, to) with a string pattern: the first occurrence only
ReplaceFirst(s, from, to) ==
    LET at == {p \in 1..Len(s) : LitAt(s, p, from)} IN
    IF at = {} THEN s
    ELSE SubSeq(s, 1, Min(at) - 1) \o to \o SubSeq(s, Min(at) + Len(from), Len(s))

\* formatSelector with no ceiling for the labels above 1080p.
formatSelectorUpTo1080(format, quality) ==
    IF format = "audio" THEN "bestaudio[ext=m4a]/bestaudio/best"
    ELSE IF quality = "1080p" THEN "best[height<=1080]"
    ELSE IF quality = "720p" THEN "best[height<=720]"
    ELSE IF quality = "480p" THEN "best[height<=480]"
    ELSE IF quality = "360p" THEN "best[height<=360]"
    ELSE "best"

\* the format selector handed to the tool
formatSelector(format, quality) ==
    IF format = "audio" THEN "bestaudio[ext=m4a]/bestaudio/best"
    ELSE IF quality = "2160p (4K)" THEN "best[height<=2160]"
    ELSE IF quality = "1440p" THEN "best[height<=1440]"
    ELSE IF quality = "1080p" THEN "best[height<=1080]"
    ELSE IF quality = "720p" THEN "best[height<=720]"
    ELSE IF quality = "480p" THEN "best[height<=480]"
    ELSE IF quality = "360p" THEN "best[height<=360]"
    ELSE "best"

extension(format) == IF format = "audio" THEN "mp3" ELSE "mp4"

\* `${videoId}_${timestamp}.${extension}` at time t
filename(videoId, format, t) ==
    videoId \o "_" \o ReplaceColonDot(ToISOString(t)) \o "." \o extension(format)

\* the name part of the -o argument: filepath.replace('.mp4', '.%(ext)s')
\* (or '.mp3'); the directory part is downloadsDir
outputTemplate(videoId, format, t) ==
    ReplaceFirst(filename(videoId, format, t), "." \o extension(format), ".%(ext)s")

PYTHON == "C:/Users/sudip/AppData/Local/Microsoft/WindowsApps/python3.12.exe"

infoCmd(u) == PYTHON \o " -m yt_dlp -j --no-download \"" \o UrlText(u) \o "\""

downloadCmd(u, format, quality, videoId, t) ==
    IF format = "audio"
    THEN PYTHON \o " -m yt_dlp -f \"" \o formatSelector(format, quality)
            \o "\" --extract-audio --audio-format mp3 --audio-quality 0 -o \"downloads/"
            \o outputTemplate(videoId, format, t) \o "\" \"" \o UrlText(u) \o "\""
    ELSE PYTHON \o " -m yt_dlp -f \"" \o formatSelector(format, quality)
            \o "\" -o \"downloads/" \o outputTemplate(videoId, format, t)
            \o "\" \"" \o UrlText(u) \o "\""

(***************************************************************************)
(* Requests, responses, processes and the downloads directory.             *)
(***************************************************************************)
Reqs == 1..MaxReqs

\* How many instants after the one at which an entry written at time 0
\* reaches the cleanup age the model observes.
MaxLate == 1

\* The instants the model observes besides the deadlines of the running
\* processes: the start, and the instants around the cleanup age.
TimePoints == {0} \cup {CLEANUP_AGE + k : k \in 0..MaxLate}

\* The instants at which the clients send their requests to
\* /api/video-info and /api/download.
ArrivalTimes == {0, CLEANUP_AGE}

StringUrl(t) == [kind |-> "string", text |-> t]

ArrayUrl(t) == [kind |-> "array", text |-> t]

MissingUrl == [kind |-> "missing", text |-> ""]

\* The request bodies the clients send to /api/video-info.
InfoBodies ==
    { [url |-> StringUrl("https://youtu.be/dQw4w9WgXcQ")],
      [url |-> StringUrl("https://vimeo.com/12345")],
      [url |-> MissingUrl] }

\* The request bodies the clients send to /api/download.
DownloadBodies ==
    { [url |-> StringUrl("https://www.youtube.com/watch?v=dQw4w9WgXcQ"),
       format |-> "video", quality |-> "1080p"],
      [url |-> StringUrl("https://youtu.be/dQw4w9WgXcQ"),
       format |-> "audio", quality |-> "192kbps"],
      [url |-> StringUrl("instagram.com/reel/XYZ789/?utm_source=ig_web_copy_link"),
       format |-> "video", quality |-> "720p"],
      [url |-> StringUrl("https://vimeo.com/12345"),
       format |-> "video", quality |-> "720p"],
      [url |-> ArrayUrl("https://youtu.be/dQw4w9WgXcQ"),
       format |-> "video", quality |-> "720p"] }

\* What the tool may print on its standard error.
Stderrs == {"", "ERROR: Video unavailable"}

\* What the tool may print on its standard output in metadata mode.
InfoStdouts == {"{\"id\":\"dQw4w9WgXcQ\",\"title\":\"T\"}", "{}", "WARNING: no json"}

\* The code of a process ended by a signal (null in the program).
NullCode == -1

NoReq == [endpoint |-> "", url |-> MissingUrl, videoId |-> ""]

NoProc == [cmd |-> "", timeout |-> 0, startedAt |-> 0, code |-> 0, signal |-> "",
           stdout |-> "", stderr |-> "", killed |-> FALSE, outfile |-> ""]

\* A response: res.status(status).json(body)
Response(status, body) == [status |-> status, body |-> body]

HOST == "http://localhost:3001"

VARIABLES
    now,        \* the current time
    phase,      \* per request: "none", "running", "exited" or "done"
    req,        \* per request: what its callbacks captured
    proc,       \* per request: the process exec started for it
    spawned,    \* per request: how many processes exec started for it
    sent,       \* per request: the responses sent, in order
    dir,        \* the downloads directory: a set of [name, mtime]
    sweep       \* the last run of /api/cleanup (again: the run before it
                \* is remembered too), remembered for as long as no process
                \* has written to the directory and no entry that run left
                \* has grown older than the cleanup age

\* One call of a function or of a method of the client, followed on its own.
VARIABLES
    pc,         \* where the call is: "idle" (no call), "start", the name of
                \* the function that returned, or the step a method is at
    arg,        \* the input of the call
    ret         \* what the call returned, resolved to or threw

call == <<pc, arg, ret>>

\* The form of the client and the downloads it started.
VARIABLES
    downloadProgress,   \* the state downloadProgress of the form
    isLoading,          \* the state isLoading of the form
    formStatus,         \* the state status of the form
    download,           \* per download started: how far downloadVideo is,
                        \* whether its interval timer is set and the
                        \* progress the timer counts
    resetTimers         \* the downloads whose 3-second timer is pending

form == <<downloadProgress, isLoading, formStatus, download, resetTimers>>

vars == <<now, phase, req, proc, spawned, sent, dir, sweep, pc, arg, ret,
          downloadProgress, isLoading, formStatus, download, resetTimers>>

NoArg == [kind |-> "none"]

NoRet == [kind |-> "none"]

\* What the directory holds when the server starts: an entry an earlier run
\* of the server left, last written as this run starts.
InitialDirs ==
    { {[name |-> "dQw4w9WgXcQ_2025-12-31T23-59-59-000Z.webm", mtime |-> 0]} }

\* No run of /api/cleanup yet.
NoSweep == [ran |-> FALSE, again |-> FALSE, response |-> Response(0, [success |-> FALSE, message |-> ""])]

\* the server after start-up
ServerInit ==
    /\ now = 0
    /\ phase = [r \in Reqs |-> "none"]
    /\ req = [r \in Reqs |-> NoReq]
    /\ proc = [r \in Reqs |-> NoProc]
    /\ spawned = [r \in Reqs |-> 0]
    /\ sent = [r \in Reqs |-> <<>>]
    /\ dir \in InitialDirs
    /\ sweep = NoSweep

server == <<now, phase, req, proc, spawned, sent, dir, sweep>>

\* Number of downloads the user starts in the form in a run.
MaxDownloads == 2

Downloads == 1..MaxDownloads

NoDownload == [stage |-> "none", interval |-> FALSE, progress |-> 0, format |-> ""]

\* the form when it is mounted
FormInit ==
    /\ downloadProgress = 0
    /\ isLoading = FALSE
    /\ formStatus = [type |-> "null", message |-> ""]
    /\ download = [d \in Downloads |-> NoDownload]
    /\ resetTimers = {}

Init ==
    /\ pc = "idle"
    /\ arg = NoArg
    /\ ret = NoRet
    /\ ServerInit
    /\ FormInit

\* res.headersSent
headersSent(r) == Len(sent[r]) > 0

\* const child = exec(cmd, { timeout }, callback)
exec(cmd, timeout) ==
    [cmd |-> cmd, timeout |-> timeout, startedAt |-> now, code |-> 0, signal |-> "",
     stdout |-> "", stderr |-> "", killed |-> FALSE, outfile |-> ""]

\* Request r arrives: the requests are numbered in the order of arrival,
\* and the clients send them at the instants of ArrivalTimes.
Arrives(r) ==
    /\ phase[r] = "none"
    /\ IF r = 1 THEN TRUE ELSE phase[r - 1] # "none"
    /\ now \in ArrivalTimes

\* Rejected with && in the place of ||.
RejectedAnd(u) == Falsy(u) /\ ~isValidUrl(u)

\* if (!url || !isValidUrl(url))
Rejected(u) == Falsy(u) \/ ~isValidUrl(u)

InvalidUrlResponse ==
    Response(400, [success |-> FALSE, message |-> "Invalid or missing URL"])

\* app.post('/api/video-info'), up to the call of exec
PostVideoInfo(r, b) ==
    /\ Arrives(r)
    /\ req' = [req EXCEPT ![r] = [endpoint |-> "video-info", url |-> b.url, videoId |-> ""]]
    /\ IF Rejected(b.url)
       THEN /\ sent' = [sent EXCEPT ![r] = Append(@, InvalidUrlResponse)]
            /\ phase' = [phase EXCEPT ![r] = "done"]
            /\ UNCHANGED <<proc, spawned>>
       ELSE /\ proc' = [proc EXCEPT ![r] = exec(infoCmd(b.url), INFO_TIMEOUT)]
            /\ spawned' = [spawned EXCEPT ![r] = @ + 1]
            /\ phase' = [phase EXCEPT ![r] = "running"]
            /\ UNCHANGED sent
    /\ UNCHANGED <<now, dir, sweep, call, form>>

\* the catch of app.post('/api/download')
DownloadCatch(r) ==
    IF ~headersSent(r)
    THEN <<Response(500, [success |-> FALSE, message |-> "Internal server error"])>>
    ELSE <<>>

\* app.post('/api/download'), up to the call of exec
PostDownload(r, b) ==
    LET id == extractVideoId(b.url) IN
    /\ Arrives(r)
    /\ IF Rejected(b.url)
       THEN /\ sent' = [sent EXCEPT ![r] = Append(@, InvalidUrlResponse)]
            /\ req' = [req EXCEPT ![r] = [endpoint |-> "download", url |-> b.url, videoId |-> ""]]
            /\ phase' = [phase EXCEPT ![r] = "done"]
            /\ UNCHANGED <<proc, spawned>>
       ELSE IF id.thrown
       THEN /\ sent' = [sent EXCEPT ![r] = @ \o DownloadCatch(r)]
            /\ req' = [req EXCEPT ![r] = [endpoint |-> "download", url |-> b.url, videoId |-> ""]]
            /\ phase' = [phase EXCEPT ![r] = "done"]
            /\ UNCHANGED <<proc, spawned>>
       ELSE IF ~id.some
       THEN /\ sent' = [sent EXCEPT ![r] = Append(@,
                          Response(400, [success |-> FALSE,
                                         message |-> "Could not extract video ID from URL"]))]
            /\ req' = [req EXCEPT ![r] = [endpoint |-> "download", url |-> b.url, videoId |-> ""]]
            /\ phase' = [phase EXCEPT ![r] = "done"]
            /\ UNCHANGED <<proc, spawned>>
       ELSE /\ req' = [req EXCEPT ![r] = [endpoint |-> "download", url |-> b.url, videoId |-> id.id]]
            /\ proc' = [proc EXCEPT ![r] =
                           exec(downloadCmd(b.url, b.format, b.quality, id.id, now),
                                DOWNLOAD_TIMEOUT)]
            /\ spawned' = [spawned EXCEPT ![r] = @ + 1]
            /\ phase' = [phase EXCEPT ![r] = "running"]
            /\ UNCHANGED sent
    /\ UNCHANGED <<now, dir, sweep, call, form>>


(***************************************************************************)
(* The external tool, as the command line it is given lets it behave.      *)
(***************************************************************************)
\* the text of cmd from position p up to the next double quote
RECURSIVE UpToQuote(_, _)
UpToQuote(cmd, p) ==
    IF p > Len(cmd) \/ CharAt(cmd, p) = "\"" THEN ""
    ELSE CharAt(cmd, p) \o UpToQuote(cmd, p + 1)

\* the name part of the tool's -o argument
OutputArg(cmd) ==
    LET flag == "-o \"downloads/"
        at == {p \in 1..Len(cmd) : LitAt(cmd, p, flag)}
    IN  UpToQuote(cmd, Min(at) + Len(flag))

\* the extensions the tool may give the file it writes
ToolExts(cmd) ==
    IF Includes(cmd, "--extract-audio --audio-format mp3") THEN {"mp3"} ELSE {"webm"}

\* the directory after a write of the entry name at time t
WriteEntry(d, name, t) == {f \in d : f.name # name} \cup {[name |-> name, mtime |-> t]}

\* A download process writes (part of) its one output file.
ToolWrite(r) ==
    /\ phase[r] = "running"
    /\ req[r].endpoint = "download"
    /\ \E ext \in ToolExts(proc[r].cmd) :
          LET name == ReplaceFirst(OutputArg(proc[r].cmd), "%(ext)s", ext) IN
          /\ proc[r].outfile \in {"", name}
          /\ proc' = [proc EXCEPT ![r].outfile = name]
          /\ dir' = WriteEntry(dir, name, now)
    /\ sweep' = NoSweep
    /\ UNCHANGED <<now, phase, req, spawned, sent, call, form>>

\* A process ends on its own: with code 0, or with code 1 and a diagnostic.
ToolExit(r) ==
    /\ phase[r] = "running"
    /\ \/ \E out \in (IF req[r].endpoint = "video-info" THEN InfoStdouts ELSE {""}) :
             proc' = [proc EXCEPT ![r].code = 0, ![r].stdout = out]
       \/ \E err \in Stderrs :
             proc' = [proc EXCEPT ![r].code = 1, ![r].stderr = err]
    /\ phase' = [phase EXCEPT ![r] = "exited"]
    /\ UNCHANGED <<now, req, spawned, sent, dir, sweep, call, form>>

\* Timeout when exec is given no timeout: no timer is set.
TimeoutUnarmed(r) == FALSE /\ UNCHANGED vars

\* The timer exec set for { timeout } fires: the process is killed with
\* SIGTERM, and ends with code null.
Timeout(r) ==
    /\ phase[r] = "running"
    /\ now >= proc[r].startedAt + proc[r].timeout
    /\ \E err \in Stderrs :
          proc' = [proc EXCEPT ![r].code = NullCode, ![r].signal = "SIGTERM",
                               ![r].killed = TRUE, ![r].stderr = err]
    /\ phase' = [phase EXCEPT ![r] = "exited"]
    /\ UNCHANGED <<now, req, spawned, sent, dir, sweep, call, form>>

(***************************************************************************)
(* The callbacks run when a process has closed.                            *)
(***************************************************************************)
\* exec's exit handler: the error it hands to the callback is null exactly
\* when the code is 0 and no signal ended the process
execError(p) == ~(p.code = 0 /\ p.signal = "")

\* JSON.parse(stdout) for the outputs of InfoStdouts; a field that is
\* absent reads as "" (both are falsy)
JSONParse(s) ==
    IF s = "{\"id\":\"dQw4w9WgXcQ\",\"title\":\"T\"}"
    THEN [thrown |-> FALSE, null |-> FALSE, id |-> "dQw4w9WgXcQ", title |-> "T"]
    ELSE IF s = "{}"
    THEN [thrown |-> FALSE, null |-> FALSE, id |-> "", title |-> ""]
    ELSE IF s = "null"
    THEN [thrown |-> FALSE, null |-> TRUE, id |-> "", title |-> ""]
    ELSE [thrown |-> TRUE, null |-> FALSE, id |-> "", title |-> ""]

\* a || b on strings
OrElse(a, b) == IF a # "" THEN a ELSE b

\* url.includes('youtube'): of a string, or of an array
urlIncludes(u, sub) ==
    IF u.kind = "array" THEN u.text = sub ELSE Includes(u.text, sub)

ParseFailed ==
    Response(500, [success |-> FALSE, message |-> "Failed to parse video information"])

\* InfoCallback with one message for every failure.
InfoCallbackOneMessage(u, p) ==
    IF execError(p) \/ JSONParse(p.stdout).thrown \/ JSONParse(p.stdout).null
    THEN <<Response(500, [success |-> FALSE,
                          message |-> "Failed to fetch video information",
                          error |-> p.stderr])>>
    ELSE <<Response(200, [success |-> TRUE, videoInfo |-> JSONParse(p.stdout)])>>

\* the callback of exec in /api/video-info: the responses it sends
InfoCallback(u, p) ==
    LET videoData == JSONParse(p.stdout)
        id == extractVideoId(u)
    IN  IF execError(p)
        THEN <<Response(500, [success |-> FALSE,
                              message |-> "Failed to fetch video information",
                              error |-> p.stderr])>>
        ELSE IF videoData.thrown \/ videoData.null THEN <<ParseFailed>>
        ELSE IF videoData.id = "" /\ id.thrown THEN <<ParseFailed>>
        ELSE <<Response(200,
                 [success |-> TRUE,
                  videoInfo |->
                    [id |-> [null |-> videoData.id = "" /\ ~id.some,
                             val |-> OrElse(videoData.id, id.id)],
                     title |-> OrElse(videoData.title, "Unknown Title"),
                     thumbnail |-> "",
                     duration |-> "00:00",
                     uploader |-> "Unknown",
                     platform |-> IF urlIncludes(u, "youtube") THEN "youtube" ELSE "instagram",
                     formats |-> <<>>]])>>

\* the entries files.find(file => file.startsWith(videoId)) may return: the
\* order of fs.readdirSync is the file system's
FindCandidates(d, videoId) == {f.name : f \in {g \in d : StartsWith(g.name, videoId)}}

\* DownloadCallback without the check of downloadedFile.
DownloadCallbackNoCheck(p, found) ==
    IF execError(p)
    THEN <<Response(500, [success |-> FALSE, message |-> "Download failed",
                          error |-> p.stderr])>>
    ELSE <<Response(200, [success |-> TRUE,
                          message |-> "Download completed successfully",
                          downloadUrl |-> HOST \o "/downloads/" \o found,
                          filename |-> found])>>

\* the callback of exec in /api/download: the responses it sends, found
\* being the entry files.find returned ("" for undefined)
DownloadCallback(p, found) ==
    IF execError(p)
    THEN <<Response(500, [success |-> FALSE, message |-> "Download failed",
                          error |-> p.stderr])>>
    ELSE IF found = ""
    THEN <<Response(500, [success |-> FALSE, message |-> "Downloaded file not found"])>>
    ELSE <<Response(200, [success |-> TRUE,
                          message |-> "Download completed successfully",
                          downloadUrl |-> HOST \o "/downloads/" \o found,
                          filename |-> found])>>

CodeText(code) == IF code = NullCode THEN "null" ELSE ToString(code)

\* CloseListener without the check of res.headersSent.
CloseListenerUnguarded(code, hs) ==
    IF code # 0
    THEN <<Response(500, [success |-> FALSE,
                          message |-> "Download process exited with code " \o CodeText(code)])>>
    ELSE <<>>

\* child.on('close', (code) => ...): the responses it sends, hs being
\* res.headersSent when it runs
CloseListener(code, hs) ==
    IF code # 0 /\ ~hs
    THEN <<Response(500, [success |-> FALSE,
                          message |-> "Download process exited with code " \o CodeText(code)])>>
    ELSE <<>>

\* What is kept of a process once its callbacks have run: how it ended and
\* the file it wrote.
Closed(p) == [NoProc EXCEPT !.code = p.code, !.signal = p.signal, !.killed = p.killed,
                            !.outfile = p.outfile]

\* The 'close' event of a process: its listeners run in the order they were
\* added, the exit handler of exec (which calls the callback) first, the
\* handler's own 'close' listener second.
RunCallbacks(r) ==
    /\ phase[r] = "exited"
    /\ \/ /\ req[r].endpoint = "video-info"
          /\ sent' = [sent EXCEPT ![r] = @ \o InfoCallback(req[r].url, proc[r])]
       \/ /\ req[r].endpoint = "download"
          /\ LET cands == FindCandidates(dir, req[r].videoId) IN
             \E found \in (IF cands = {} THEN {""} ELSE cands) :
                LET cb == DownloadCallback(proc[r], found) IN
                sent' = [sent EXCEPT ![r] =
                            @ \o cb \o CloseListener(proc[r].code, Len(@ \o cb) > 0)]
    /\ phase' = [phase EXCEPT ![r] = "done"]
    /\ proc' = [proc EXCEPT ![r] = Closed(@)]
    /\ UNCHANGED <<now, req, spawned, dir, sweep, call, form>>

\* OnClose that starts the command again when the process failed.
OnCloseRetry(r) ==
    IF phase[r] = "exited" /\ execError(proc[r]) /\ spawned[r] < 2
    THEN /\ proc' = [proc EXCEPT ![r] = exec(proc[r].cmd, proc[r].timeout)]
         /\ spawned' = [spawned EXCEPT ![r] = @ + 1]
         /\ phase' = [phase EXCEPT ![r] = "running"]
         /\ UNCHANGED <<now, req, sent, dir, sweep, call, form>>
    ELSE RunCallbacks(r)

\* A process that has ended is closed: 'close' is emitted once.
OnClose(r) == RunCallbacks(r)

(***************************************************************************)
(* /api/cleanup.                                                           *)
(***************************************************************************)
\* Expired with >= in the place of >.
ExpiredAtThreshold(d, t) == {f \in d : t - f.mtime >= CLEANUP_AGE}

\* Expired when the loop stops after the first entry it unlinks.
ExpiredOnePerRun(d, t) ==
    LET old == {f \in d : t - f.mtime > CLEANUP_AGE} IN
    IF old = {} THEN {} ELSE {CHOOSE f \in old : TRUE}

\* Expired with the age after which a download is abandoned in the place
\* of the cleanup age.
ExpiredAtDownloadTimeout(d, t) == {f \in d : t - f.mtime >= DOWNLOAD_TIMEOUT}

\* the entries the loop of /api/cleanup unlinks at time t
Expired(d, t) == {f \in d : t - f.mtime > CLEANUP_AGE}

\* app.post('/api/cleanup')
Cleanup ==
    LET gone == Expired(dir, now) IN
    /\ dir' = dir \ gone
    /\ sweep' = [ran |-> TRUE, again |-> sweep.ran,
                 response |-> Response(200,
                     [success |-> TRUE,
                      message |-> "Cleaned up " \o ToString(Cardinality(gone)) \o " old files"])]
    /\ UNCHANGED <<now, phase, req, proc, spawned, sent, call, form>>

(***************************************************************************)
(* Time.                                                                   *)
(***************************************************************************)
Deadlines == {proc[r].startedAt + proc[r].timeout : r \in {q \in Reqs : phase[q] = "running"}}

\* Time passes to the next instant the model observes. A due timer fires
\* and a closed process has its callbacks run before time passes.
Tick ==
    LET later == {t \in TimePoints \cup Deadlines : t > now} IN
    /\ \A r \in Reqs : phase[r] # "exited"
    /\ \A d \in Deadlines : d > now
    /\ later # {}
    /\ now' = Min(later)
    /\ sweep' = IF \E f \in dir : now' - f.mtime > CLEANUP_AGE /\ ~(now - f.mtime > CLEANUP_AGE)
                THEN NoSweep ELSE sweep
    /\ UNCHANGED <<phase, req, proc, spawned, sent, dir, call, form>>

Next ==
    \/ \E r \in Reqs, b \in InfoBodies : PostVideoInfo(r, b)
    \/ \E r \in Reqs, b \in DownloadBodies : PostDownload(r, b)
    \/ \E r \in Reqs : ToolWrite(r)
    \/ \E r \in Reqs : ToolExit(r)
    \/ \E r \in Reqs : Timeout(r)
    \/ \E r \in Reqs : OnClose(r)
    \/ Cleanup
    \/ Tick

Spec == Init /\ [][Next]_vars

\* The scheduling of the event loop: time passes, a due timer fires, and
\* the callbacks of a closed process are run. Nothing obliges a client to
\* send a request, or the tool to end on its own.
LiveSpec ==
    /\ Spec
    /\ WF_vars(Tick)
    /\ \A r \in Reqs : WF_vars(Timeout(r)) /\ WF_vars(OnClose(r))

(***************************************************************************)
(* Calls followed on their own: one call of a function of the server or    *)
(* of the clients on one input, the server untouched.                      *)
(***************************************************************************)
\* the quality labels of the inputs: the six the handler knows, and others
Qualities ==
    { "2160p (4K)", "1440p", "1080p", "720p", "480p", "360p",
      "240p", "144p", "best", "", "4K", "2160p", "1080P", "192kbps" }

\* the inputs of the part of /api/download that builds the command
CommandInputs ==
    { [kind |-> "command", format |-> f, quality |-> q, videoId |-> v, t |-> t] :
        f \in {"video", "audio"}, q \in Qualities,
        v \in {"dQw4w9WgXcQ", "XYZ789"}, t \in {0, 45296789} }

\* the text of cmd that follows the first occurrence of flag, up to the
\* next double quote
QuotedAfter(cmd, flag) ==
    LET at == {p \in 1..Len(cmd) : LitAt(cmd, p, flag)} IN
    UpToQuote(cmd, Min(at) + Len(flag))

\* /api/download, from the choice of the format selector to the command
BuildCommand ==
    /\ pc = "start"
    /\ arg.kind = "command"
    /\ pc' = "BuildCommand"
    /\ ret' = [kind |-> "command",
               formatSelector |-> formatSelector(arg.format, arg.quality),
               filename |-> filename(arg.videoId, arg.format, arg.t),
               cmd |-> downloadCmd(StringUrl("https://youtu.be/dQw4w9WgXcQ"),
                                   arg.format, arg.quality, arg.videoId, arg.t)]
    /\ UNCHANGED <<arg, server, form>>

\* The strings the classifiers are applied to: base \o suffix, the base
\* built of a scheme and subdomain, a path shape and a token, the suffix
\* empty or a "/" or query parameters.
UrlPrefixes == {"", "https://www.", "https://m."}

UrlPaths ==
    { "youtube.com/watch?v=", "youtube.com/shorts/", "youtu.be/", "youtube.com/embed/",
      "youtube.com/v/", "youtube.com/watch?feature=share&v=",
      "instagram.com/p/", "instagram.com/reel/", "instagram.com/tv/",
      "instagram.com/stories/user.name/", "vimeo.com/" }

UrlTokens == {"dQw4w9WgXcQ", "ABC123XYZ", "dQw4w9WgXcQEXTRA", "1234567"}

UrlSuffixes ==
    { "", "/", "?feature=share", "&list=X", "/?utm_source=ig_web_copy_link",
      "&v=Zdscg2Q2IQQ", "?next=https://youtu.be/Zdscg2Q2IQQ", "?ref=instagram.com/p/ABC123" }

UrlInputs ==
    { [kind |-> "url", base |-> a \o b \o c, shape |-> b, token |-> c, suffix |-> q] :
        a \in UrlPrefixes, b \in UrlPaths, c \in UrlTokens, q \in UrlSuffixes }
        \cup { [kind |-> "url", base |-> x, shape |-> "", token |-> "", suffix |-> ""] :
                 x \in {"", "not a url", "youtube", "https://www.youtube.com/",
                         "https://youtu.be/ABC123XYZ", "https://youtu.be/dQw4w9WgXcQ",
                         "https://youtu.be/dQw4w9WgXcQ\" & calc \"",
                         "x\" | https://www.instagram.com/p/ABC123"} }

\* the string of an input
Text(a) == a.base \o a.suffix

\* How the shell reads cmd: a double quote opens or closes a quoted part,
\* so a character is outside quotes when an even number of quotes precede it
QuoteAt(cmd) == {p \in 1..Len(cmd) : CharAt(cmd, p) = "\""}

OutsideQuotes(cmd, p) ==
    /\ CharAt(cmd, p) # "\""
    /\ Cardinality({q \in QuoteAt(cmd) : q < p}) % 2 = 0

\* the spaces that separate the words of cmd
WordBreaks(cmd) == {p \in 1..Len(cmd) : CharAt(cmd, p) = " " /\ OutsideQuotes(cmd, p)}

\* the operators of the shell in cmd: what follows one is another command
\* or a redirection
ShellOperators(cmd) ==
    {p \in 1..Len(cmd) : CharAt(cmd, p) \in {"&", "|", ";", "<", ">"} /\ OutsideQuotes(cmd, p)}

\* the last word of cmd, its quotes taken off, when it is one quoted part
\* that ends cmd; "" otherwise
LastQuotedWord(cmd) ==
    LET Q == QuoteAt(cmd)
        close == CHOOSE q \in Q : \A r \in Q : r <= q
        open == CHOOSE q \in Q \ {close} : \A r \in Q \ {close} : r <= q
    IN  IF Cardinality(Q) < 2 \/ close # Len(cmd) \/ open = 1 THEN ""
        ELSE IF CharAt(cmd, open - 1) # " " \/ ~OutsideQuotes(cmd, open - 1) THEN ""
        ELSE SubSeq(cmd, open + 1, close - 1)

\* the server's isValidUrl and extractVideoId applied to the string, and
\* the command of /api/video-info for it when it is not rejected
ServerClassify ==
    /\ pc = "start"
    /\ arg.kind = "url"
    /\ pc' = "ServerClassify"
    /\ ret' = [kind |-> "classified",
               valid |-> isValidUrl(StringUrl(Text(arg))),
               id |-> extractVideoId(StringUrl(Text(arg))),
               cmd |-> IF Rejected(StringUrl(Text(arg))) THEN ""
                       ELSE infoCmd(StringUrl(Text(arg)))]
    /\ UNCHANGED <<arg, server, form>>

\* isValidUrl, extractVideoId and getPlatform of
\* src/services/downloadService.ts applied to the string
SrcClassify ==
    /\ pc = "start"
    /\ arg.kind = "url"
    /\ pc' = "SrcClassify"
    /\ ret' = [kind |-> "classified",
               valid |-> Src_isValidUrl(Text(arg)),
               id |-> Src_extractVideoId(Text(arg)),
               platform |-> Src_getPlatform(Text(arg))]
    /\ UNCHANGED <<arg, server, form>>

\* YouTubeUtils.isValidYouTubeUrl and extractVideoId applied to the string
YouTubeUtilsClassify ==
    /\ pc = "start"
    /\ arg.kind = "url"
    /\ pc' = "YouTubeUtilsClassify"
    /\ ret' = [kind |-> "classified",
               valid |-> YouTubeUtils_isValidYouTubeUrl(Text(arg)),
               id |-> YouTubeUtils_extractVideoId(Text(arg))]
    /\ UNCHANGED <<arg, server, form>>

\* isYouTubeUrl, isInstagramUrl, detectPlatform, extractYouTubeId and
\* extractInstagramId of ytube-saver-app applied to the string
AppClassify ==
    /\ pc = "start"
    /\ arg.kind = "url"
    /\ pc' = "AppClassify"
    /\ ret' = [kind |-> "classified",
               youtube |-> App_isYouTubeUrl(Text(arg)),
               instagram |-> App_isInstagramUrl(Text(arg)),
               platform |-> App_detectPlatform(Text(arg)),
               youtubeId |-> App_extractYouTubeId(Text(arg)),
               instagramId |-> App_extractInstagramId(Text(arg))]
    /\ UNCHANGED <<arg, server, form>>

(***************************************************************************)
(* The methods of the clients.  What fetch answers and whether the file   *)
(* can be saved are inputs of the call.                                    *)
(***************************************************************************)
Undefined == [kind |-> "undefined"]

\* a promise that resolved to v, and one that rejected with Error(m)
PromiseResolved(v) == [kind |-> "settled", state |-> "resolved", value |-> v, error |-> ""]

PromiseRejected(m) == [kind |-> "settled", state |-> "rejected", value |-> Undefined, error |-> m]

\* response.json() of a body that is not JSON rejects
NotJson == [parses |-> FALSE]

Json(d) == [parses |-> TRUE, data |-> d]

\* the fields of a body the clients read; "" and Undefined are falsy
Body(success, message) ==
    [success |-> success, message |-> message, error |-> "", videoInfo |-> Undefined,
     data |-> Undefined, downloadUrl |-> "", filename |-> "", filePath |-> ""]

\* fetch rejected (no connection)
FetchRejects ==
    [kind |-> "rejects", ok |-> FALSE, status |-> 0, body |-> NotJson,
     message |-> "Failed to fetch"]

FetchResponse(status, body) ==
    [kind |-> "response", ok |-> status \in 200..299, status |-> status, body |-> body,
     message |-> ""]

SampleVideoInfo ==
    [id |-> "dQw4w9WgXcQ", title |-> "Some Title", thumbnail |-> "", duration |-> "3:33",
     uploader |-> "Some Channel", platform |-> "youtube", formats |-> <<>>]

ClientUrls ==
    { "https://www.youtube.com/watch?v=dQw4w9WgXcQ", "https://youtu.be/Zdscg2Q2IQQ",
      "https://www.instagram.com/reel/XYZ789/",
      "https://www.instagram.com/stories/user.name/1234567", "https://vimeo.com/1234567" }

\* the answers of POST /video-info
InfoFetches ==
    { FetchRejects,
      FetchResponse(400, Json(Body(FALSE, "Invalid or missing URL"))),
      FetchResponse(500, Json([Body(FALSE, "Failed to fetch video information")
                            EXCEPT !.error = "ERROR: unavailable"])),
      FetchResponse(502, NotJson),
      FetchResponse(200, NotJson),
      FetchResponse(200, Json([Body(TRUE, "") EXCEPT !.videoInfo = SampleVideoInfo])),
      FetchResponse(200, Json([Body(TRUE, "") EXCEPT !.data = SampleVideoInfo])) }

InfoInputs ==
    { [kind |-> "getVideoInfo", url |-> u, fetch |-> f] : u \in ClientUrls, f \in InfoFetches }

\* the message of the SyntaxError of response.json()
JsonError == "Unexpected token < in JSON at position 0"

Src_getVideoInfo(url, f) ==
    IF f.kind = "rejects" THEN PromiseRejected(f.message)
    ELSE IF ~f.ok THEN PromiseRejected("Backend API error: " \o ToString(f.status))
    ELSE IF ~f.body.parses THEN PromiseRejected(JsonError)
    ELSE IF ~f.body.data.success
         THEN PromiseRejected(IF f.body.data.error # "" THEN f.body.data.error
                       ELSE "Failed to get video info")
    ELSE PromiseResolved(f.body.data.data)

App_getFallbackVideoInfo(url) ==
    LET platform == App_detectPlatform(url)
        id == IF platform = "youtube" THEN App_extractYouTubeId(url)
              ELSE App_extractInstagramId(url)
    IN  [id |-> IF id.some THEN id.id ELSE "unknown",
         title |-> "Video Title (Info not available)",
         thumbnail |-> IF platform = "youtube"
                       THEN "https://img.youtube.com/vi/"
                              \o (IF id.some THEN id.id ELSE "null")
                              \o "/maxresdefault.jpg"
                       ELSE "",
         duration |-> "00:00",
         uploader |-> "Unknown",
         platform |-> platform,
         formats |-> <<>>]

App_getVideoInfo(url, f) ==
    IF f.kind = "rejects" \/ ~f.ok \/ ~f.body.parses
    THEN PromiseResolved(App_getFallbackVideoInfo(url))
    ELSE PromiseResolved(f.body.data.videoInfo)

Null == [kind |-> "null"]

\* fetchVideoInfo of the form, from its first state (videoInfo null) with
\* the url entered: the state of the form when it returns
Form_fetchVideoInfo(url, f) ==
    IF ~Src_isValidUrl(url)
    THEN [kind |-> "form", isLoading |-> FALSE, videoInfo |-> Null,
          status |-> [type |-> "error",
                      message |-> "Please enter a valid YouTube or Instagram URL"]]
    ELSE IF Src_getVideoInfo(url, f).state = "resolved"
         THEN [kind |-> "form", isLoading |-> FALSE,
               videoInfo |-> Src_getVideoInfo(url, f).value,
               status |-> [type |-> "success",
                           message |-> "Video information loaded successfully!"]]
    ELSE [kind |-> "form", isLoading |-> FALSE,
          videoInfo |-> [id |-> "unknown", title |-> "Video Title (Info unavailable)",
                         thumbnail |-> "/logo512.svg", duration |-> "Unknown",
                         uploader |-> "Unknown",
                         platform |-> IF Src_getPlatform(url) = "null" THEN "youtube"
                                      ELSE Src_getPlatform(url),
                         formats |-> <<>>],
          status |-> [type |-> "warning",
                      message |-> "Could not fetch video info from server. You can still attempt to download."]]

FormFetchVideoInfo ==
    /\ pc = "start"
    /\ arg.kind = "getVideoInfo"
    /\ pc' = "fetchVideoInfo"
    /\ ret' = Form_fetchVideoInfo(arg.url, arg.fetch)
    /\ UNCHANGED <<arg, server, form>>

SrcGetVideoInfo ==
    /\ pc = "start"
    /\ arg.kind = "getVideoInfo"
    /\ pc' = "Src_getVideoInfo"
    /\ ret' = Src_getVideoInfo(arg.url, arg.fetch)
    /\ UNCHANGED <<arg, server, form>>

AppGetVideoInfo ==
    /\ pc = "start"
    /\ arg.kind = "getVideoInfo"
    /\ pc' = "App_getVideoInfo"
    /\ ret' = App_getVideoInfo(arg.url, arg.fetch)
    /\ UNCHANGED <<arg, server, form>>

\* the answers of POST /download
DownloadFetches ==
    { FetchRejects,
      FetchResponse(400, Json(Body(FALSE, "Invalid or missing URL"))),
      FetchResponse(500, Json([Body(FALSE, "Download failed") EXCEPT !.error = "ERROR: unavailable"])),
      FetchResponse(200, NotJson),
      FetchResponse(200, Json(Body(FALSE, "Download failed"))),
      FetchResponse(200, Json([Body(TRUE, "Download completed successfully")
                                 EXCEPT !.downloadUrl = "http://localhost:3001/downloads/dQw4w9WgXcQ_t.mp4",
                                        !.filename = "dQw4w9WgXcQ_t.mp4"])),
      FetchResponse(200, Json([Body(TRUE, "Download completed successfully")
                                 EXCEPT !.filePath = "dQw4w9WgXcQ_t.mp4",
                                        !.filename = "dQw4w9WgXcQ_t.mp4"])) }

\* save: whether handing the file to the browser works or throws;
\* api: the url the public API answers with, "" when it has none
DownloadInputs ==
    { [kind |-> "downloadVideo", request |-> [url |-> u, format |-> fmt, quality |-> "720p"],
       fetch |-> f, save |-> sv, api |-> a] :
        u \in ClientUrls, fmt \in {"video", "audio"}, f \in DownloadFetches,
        sv \in {"saved", "throws"}, a \in {"", "https://api.cobalt.tools/stream"} }

\* the message of the error of a save that throws
SaveError == "Failed to execute 'appendChild' on 'Node'"

Src_downloadVideo(request, f, save) ==
    LET failed(m) == PromiseResolved([success |-> FALSE, message |-> m])
    IN  IF f.kind = "rejects" THEN failed(f.message)
        ELSE IF ~f.ok THEN failed("Backend API error: " \o ToString(f.status))
        ELSE IF ~f.body.parses THEN failed(JsonError)
        ELSE IF ~f.body.data.success
             THEN failed(IF f.body.data.error # "" THEN f.body.data.error ELSE "Download failed")
        ELSE IF f.body.data.filePath # "" /\ save = "throws" THEN failed(SaveError)
        ELSE PromiseResolved([success |-> TRUE, message |-> "Download completed successfully",
                              downloadUrl |-> f.body.data.filePath,
                              videoInfo |-> f.body.data.videoInfo])

Part1_downloadVideo(request, f) ==
    IF f.kind = "rejects" \/ ~f.ok \/ ~f.body.parses
    THEN PromiseRejected("Failed to download video")
    ELSE PromiseResolved(f.body.data)

App_tryYouTubeDirectUrl(videoId) ==
    IF videoId = "dQw4w9WgXcQ"
    THEN "https://sample-videos.com/zip/10/mp4/mp4-SampleVideo_1280x720_1mb.mp4"
    ELSE ""

\* the first approach with a url: direct, public API, proxy (which has none)
App_getWorkingDownloadUrl(videoId, api) ==
    IF App_tryYouTubeDirectUrl(videoId) # "" THEN App_tryYouTubeDirectUrl(videoId)
    ELSE api

App_downloadFromYouTube(request, save, api) ==
    LET videoId == App_extractYouTubeId(request.url)
    IN  IF ~videoId.some THEN PromiseRejected("Invalid YouTube URL")
        ELSE IF save = "throws"
             THEN PromiseResolved([success |-> FALSE,
                      message |-> "Download failed: " \o SaveError \o ". Please try: 1) Check if URL is correct, 2) Try a different quality, 3) Use desktop apps like yt-dlp for guaranteed downloads."])
        ELSE IF App_getWorkingDownloadUrl(videoId.id, api) # ""
             THEN PromiseResolved([success |-> TRUE,
                      message |-> "Download started! Check your Downloads folder or the location you selected.",
                      downloadUrl |-> App_getWorkingDownloadUrl(videoId.id, api)])
        ELSE PromiseResolved([success |-> TRUE,
                      message |-> "Demo download started! (In production, this would be the actual video). Check your Downloads folder or chosen location.",
                      downloadUrl |-> "https://sample-videos.com/zip/10/mp4/mp4-SampleVideo_1280x720_1mb.mp4"])

App_downloadFromInstagram(request, save) ==
    LET postId == App_extractInstagramId(request.url)
    IN  IF ~postId.some THEN PromiseRejected("Invalid Instagram URL")
        ELSE IF save = "throws"
             THEN PromiseResolved([success |-> FALSE,
                      message |-> "Instagram download failed: " \o SaveError \o ". Please try: 1) Check if URL is correct, 2) Use browser extensions, 3) Use desktop apps for reliable downloads."])
        ELSE PromiseResolved([success |-> TRUE,
                      message |-> "Demo download started! (In production, this would be the actual Instagram content). Check your Downloads folder or chosen location.",
                      downloadUrl |-> IF request.format = "video"
                                      THEN "https://sample-videos.com/zip/10/mp4/mp4-SampleVideo_640x360_1mb.mp4"
                                      ELSE "https://sample-videos.com/zip/10/mp3/mp3-SampleAudio_0.4mb.mp3"])

App_fallbackDownload(request, save, api) ==
    LET platform == App_detectPlatform(request.url)
        result == IF platform = "youtube" THEN App_downloadFromYouTube(request, save, api)
                  ELSE IF platform = "instagram" THEN App_downloadFromInstagram(request, save)
                  ELSE PromiseRejected("Unsupported platform")
    IN  IF result.state = "rejected"
        THEN PromiseResolved([success |-> FALSE,
                 message |-> "Direct download not available. Please try: 1) Check if URL is correct, 2) Try a different quality, 3) Use desktop apps like yt-dlp. Error: " \o result.error])
        ELSE result

App_downloadVideo(request, f, save, api) ==
    IF f.kind = "rejects" \/ ~f.ok \/ ~f.body.parses
    THEN App_fallbackDownload(request, save, api)
    ELSE IF f.body.data.success /\ f.body.data.downloadUrl # "" /\ save = "saved"
         THEN PromiseResolved([success |-> TRUE, message |-> "Download started successfully!",
                               downloadUrl |-> f.body.data.downloadUrl])
    ELSE App_fallbackDownload(request, save, api)

\* a promise and the services asked before it settled
WithAsked(p, asked) ==
    [kind |-> p.kind, state |-> p.state, value |-> p.value, error |-> p.error, asked |-> asked]

\* the services the first variant of the application asks for a url:
\* tryPublicAPI is reached when tryYouTubeDirectUrl has none
App_servicesAsked(request, f, save) ==
    LET fellBack == \/ f.kind = "rejects" \/ ~f.ok \/ ~f.body.parses
                    \/ ~(f.body.data.success /\ f.body.data.downloadUrl # "" /\ save = "saved")
        videoId == App_extractYouTubeId(request.url)
    IN  IF /\ fellBack
           /\ App_detectPlatform(request.url) = "youtube"
           /\ videoId.some
           /\ App_tryYouTubeDirectUrl(videoId.id) = ""
        THEN <<"https://api.cobalt.tools/api/json">>
        ELSE <<>>

\* the calls of downloadFromBackend(filePath, filename) downloadVideo makes
Src_downloadFromBackendCalls(request, f) ==
    IF f.kind = "response" /\ f.ok /\ f.body.parses /\ f.body.data.success
          /\ f.body.data.filePath # ""
    THEN <<[filePath |-> f.body.data.filePath,
            filename |-> IF f.body.data.filename # "" THEN f.body.data.filename
                         ELSE "download." \o (IF request.format = "audio" THEN "mp3" ELSE "mp4")]>>
    ELSE <<>>

SrcDownloadVideo ==
    /\ pc = "start"
    /\ arg.kind = "downloadVideo"
    /\ pc' = "Src_downloadVideo"
    /\ ret' = [saves |-> Src_downloadFromBackendCalls(arg.request, arg.fetch)]
                 @@ Src_downloadVideo(arg.request, arg.fetch, arg.save)
    /\ UNCHANGED <<arg, server, form>>

AppDownloadVideo ==
    /\ pc = "start"
    /\ arg.kind = "downloadVideo"
    /\ pc' = "App_downloadVideo"
    /\ ret' = WithAsked(App_downloadVideo(arg.request, arg.fetch, arg.save, arg.api),
                         App_servicesAsked(arg.request, arg.fetch, arg.save))
    /\ UNCHANGED <<arg, server, form>>

Part1DownloadVideo ==
    /\ pc = "start"
    /\ arg.kind = "downloadVideo"
    /\ pc' = "Part1_downloadVideo"
    /\ ret' = Part1_downloadVideo(arg.request, arg.fetch)
    /\ UNCHANGED <<arg, server, form>>

(***************************************************************************)
(* The second variant of the application's service: the fallback asks the *)
(* services of FALLBACK_SERVICES one after the other.                      *)
(***************************************************************************)
FALLBACK_SERVICES == <<"https://api.cobalt.tools/api/json", "https://api.savemp3.cc/">>

\* answers[i]: the url service i answers with, "" when tryDownloadService
\* returns null
Download2Inputs ==
    { [kind |-> "downloadVideo2", request |-> [url |-> u, format |-> fmt, quality |-> "720p"],
       fetch |-> f, save |-> sv, answers |-> <<a1, a2>>] :
        u \in ClientUrls, fmt \in {"video", "audio"},
        f \in {FetchRejects, FetchResponse(500, Json(Body(FALSE, "Download failed")))},
        sv \in {"saved", "throws"},
        a1 \in {"", "https://api.cobalt.tools/stream"}, a2 \in {"", "https://api.savemp3.cc/file"} }

\* the loop with no return in its body: every service is asked, then the
\* first url is saved
RECURSIVE App2_tryServicesNoReturn(_, _, _, _, _, _)
App2_tryServicesNoReturn(i, request, answers, save, asked, otherwise) ==
    IF i > Len(FALLBACK_SERVICES)
    THEN IF save = "saved" /\ \E k \in 1..Len(answers) : answers[k] # ""
         THEN WithAsked(PromiseResolved([success |-> TRUE,
                            message |-> "Download started! Check your Downloads folder.",
                            downloadUrl |-> answers[CHOOSE k \in 1..Len(answers) :
                                                /\ answers[k] # ""
                                                /\ \A j \in 1..(k - 1) : answers[j] = ""]]),
                        asked)
         ELSE WithAsked(otherwise, asked)
    ELSE App2_tryServicesNoReturn(i + 1, request, answers, save,
                                  Append(asked, FALLBACK_SERVICES[i]), otherwise)

\* the loop over FALLBACK_SERVICES from service i on: the catch of the loop
\* body goes on with the next service when triggerDownload throws;
\* after the last service, otherwise is the outcome
RECURSIVE App2_tryServices(_, _, _, _, _, _)
App2_tryServices(i, request, answers, save, asked, otherwise) ==
    IF i > Len(FALLBACK_SERVICES) THEN WithAsked(otherwise, asked)
    ELSE IF answers[i] # "" /\ save = "saved"
         THEN WithAsked(PromiseResolved([success |-> TRUE,
                            message |-> "Download started! Check your Downloads folder.",
                            downloadUrl |-> answers[i]]),
                        Append(asked, FALLBACK_SERVICES[i]))
    ELSE App2_tryServices(i + 1, request, answers, save,
                          Append(asked, FALLBACK_SERVICES[i]), otherwise)

\* getYouTubeVideoInfo does not throw, so neither does this
App2_tryDirectVideoExtraction(request, videoId) ==
    PromiseResolved([success |-> TRUE,
                     message |-> "Preparing download... This may take a moment for large files.",
                     downloadUrl |-> "http://localhost:3001/api/stream/" \o videoId
                                       \o "?format=" \o request.format
                                       \o "&quality=" \o request.quality])

App2_downloadFromYouTube(request, answers, save) ==
    LET videoId == App_extractYouTubeId(request.url)
    IN  IF ~videoId.some THEN WithAsked(PromiseRejected("Invalid YouTube URL"), <<>>)
        ELSE App2_tryServices(1, request, answers, save, <<>>,
                              App2_tryDirectVideoExtraction(request, videoId.id))

App2_downloadFromInstagram(request, answers, save) ==
    App2_tryServices(1, request, answers, save, <<>>,
                     PromiseRejected("Instagram download services unavailable"))

App2_fallbackDownload(request, answers, save) ==
    LET platform == App_detectPlatform(request.url)
        result == IF platform = "youtube" THEN App2_downloadFromYouTube(request, answers, save)
                  ELSE IF platform = "instagram"
                       THEN App2_downloadFromInstagram(request, answers, save)
                  ELSE WithAsked(PromiseRejected("Unsupported platform"), <<>>)
    IN  IF result.state = "rejected"
        THEN WithAsked(PromiseResolved([success |-> FALSE,
                 message |-> "Direct download not available. Please try: 1) Check if URL is correct, 2) Try a different quality, 3) Use desktop apps like yt-dlp. Error: " \o result.error]),
                 result.asked)
        ELSE result

App2_downloadVideo(request, f, answers, save) ==
    IF f.kind = "rejects" \/ ~f.ok \/ ~f.body.parses
    THEN App2_fallbackDownload(request, answers, save)
    ELSE IF f.body.data.success /\ f.body.data.downloadUrl # "" /\ save = "saved"
         THEN WithAsked(PromiseResolved([success |-> TRUE,
                            message |-> "Download started successfully!",
                            downloadUrl |-> f.body.data.downloadUrl]), <<>>)
    ELSE App2_fallbackDownload(request, answers, save)

App2DownloadVideo ==
    /\ pc = "start"
    /\ arg.kind = "downloadVideo2"
    /\ pc' = "App2_downloadVideo"
    /\ ret' = App2_downloadVideo(arg.request, arg.fetch, arg.answers, arg.save)
    /\ UNCHANGED <<arg, server, form>>

CallInputs ==
    CommandInputs \cup UrlInputs \cup InfoInputs \cup DownloadInputs \cup Download2Inputs

CallInit ==
    /\ pc = "start"
    /\ arg \in CallInputs
    /\ ret = NoRet
    /\ ServerInit
    /\ FormInit

CallNext ==
    \/ BuildCommand
    \/ ServerClassify
    \/ SrcClassify
    \/ YouTubeUtilsClassify
    \/ AppClassify
    \/ SrcGetVideoInfo
    \/ AppGetVideoInfo
    \/ SrcDownloadVideo
    \/ AppDownloadVideo
    \/ Part1DownloadVideo
    \/ App2DownloadVideo
    \/ FormFetchVideoInfo

CallSpec == CallInit /\ [][CallNext]_vars

(***************************************************************************)
(* The form and downloadVideo of its client, with their timers.  The       *)
(* callback of a timer and the continuation of an await run one at a time. *)
(***************************************************************************)
\* the urls the user enters
FormUrls == {"https://www.youtube.com/watch?v=dQw4w9WgXcQ", "https://vimeo.com/1234567"}

\* the answers of POST /download the form's downloads get
FormFetches ==
    { FetchRejects,
      FetchResponse(500, Json(Body(FALSE, "Download failed"))),
      FetchResponse(200, Json([Body(TRUE, "Download completed successfully")
                                 EXCEPT !.downloadUrl = "http://localhost:3001/downloads/dQw4w9WgXcQ_t.mp4",
                                        !.filename = "dQw4w9WgXcQ_t.mp4"])) }

\* Math.random() * 15, in whole numbers
Increments == {7, 14}

\* handleDownload up to await DownloadService.downloadVideo(...), and
\* downloadVideo up to its await fetch(...): the interval timer is set
HandleDownload(d, u) ==
    /\ ~isLoading
    /\ download[d].stage = "none"
    /\ IF d = 1 THEN TRUE ELSE download[d - 1].stage # "none"
    /\ IF ~Src_isValidUrl(u)
       THEN /\ formStatus' = [type |-> "error",
                              message |-> "Please enter a valid YouTube or Instagram URL"]
            /\ UNCHANGED <<downloadProgress, isLoading, download>>
       ELSE /\ isLoading' = TRUE
            /\ formStatus' = [type |-> "info", message |-> "Contacting download servers..."]
            /\ downloadProgress' = 10
            /\ download' = [download EXCEPT ![d] =
                               [stage |-> "fetching", interval |-> TRUE, progress |-> 0,
                                format |-> "video"]]
    /\ UNCHANGED <<resetTimers, server, call>>

\* the callback of setInterval(..., 1000) of downloadVideo runs; it does
\* something while progress < 90
ProgressInterval(d, inc) ==
    /\ download[d].interval
    /\ download[d].progress < 90
    /\ download' = [download EXCEPT ![d].progress = @ + inc]
    /\ downloadProgress' = Min({download[d].progress + inc, 90})
    /\ UNCHANGED <<isLoading, formStatus, resetTimers, server, call>>

\* fetch settles: the rest of downloadVideo (clearInterval when fetch
\* resolved) and the rest of handleDownload
FetchSettles(d, f) ==
    LET request == [url |-> "https://www.youtube.com/watch?v=dQw4w9WgXcQ",
                    format |-> download[d].format, quality |-> "1080p"]
        response == Src_downloadVideo(request, f, "saved").value
    IN  /\ download[d].stage = "fetching"
        /\ download' = [download EXCEPT ![d].stage = "settled",
                                        ![d].interval = IF f.kind = "rejects" THEN @ ELSE FALSE]
        /\ IF response.success
           THEN /\ downloadProgress' = 100
                /\ formStatus' = [type |-> "success", message |-> response.message]
                /\ resetTimers' = resetTimers \cup {d}
           ELSE /\ downloadProgress' = 0
                /\ formStatus' = [type |-> "error", message |-> response.message]
                /\ UNCHANGED resetTimers
        /\ isLoading' = FALSE
        /\ UNCHANGED <<server, call>>

\* the callback of setTimeout(() => setDownloadProgress(0), 3000) runs
ResetProgress(d) ==
    /\ d \in resetTimers
    /\ downloadProgress' = 0
    /\ resetTimers' = resetTimers \ {d}
    /\ UNCHANGED <<isLoading, formStatus, download, server, call>>

FormNext ==
    \/ \E d \in Downloads, u \in FormUrls : HandleDownload(d, u)
    \/ \E d \in Downloads, inc \in Increments : ProgressInterval(d, inc)
    \/ \E d \in Downloads, f \in FormFetches : FetchSettles(d, f)
    \/ \E d \in Downloads : ResetProgress(d)

FormSpec == Init /\ [][FormNext]_vars

(***************************************************************************)
(* The claims.                                                             *)
(***************************************************************************)
IsDownload(r) == req[r].endpoint = "download"

IsInfo(r) == req[r].endpoint = "video-info"

\* the url passes the checks made before exec in /api/download
PassesValidation(u) ==
    /\ ~Falsy(u)
    /\ isValidUrl(u)
    /\ ~extractVideoId(u).thrown
    /\ extractVideoId(u).some

\* the urls of the requests the model sends
Urls == {b.url : b \in InfoBodies} \cup {b.url : b \in DownloadBodies}

\* those of them the test !url || !isValidUrl(url) rejects
RejectedUrls == {u \in Urls : Falsy(u) \/ ~isValidUrl(u)}

\* those of them that pass the checks made before exec in /api/download
ValidatedUrls == {u \in Urls : PassesValidation(u)}

\* C1: a request to /api/download is sent at most one response at any time,
\* and exactly one once its handler and the callbacks of its process have
\* run, however the process ended.
C1_ExactlyOneResponse ==
    \A r \in Reqs :
        IsDownload(r) =>
            /\ Len(sent[r]) <= 1
            /\ phase[r] = "done" => Len(sent[r]) = 1

\* C1, its case: a download whose process ended with a code other than 0
\* (the 'close' listener ran after the callback had answered).
C1_Witness ==
    \E r \in Reqs :
        IsDownload(r) /\ phase[r] = "done" /\ spawned[r] = 1 /\ proc[r].code # 0
            /\ Len(sent[r]) = 1

\* C2: a request whose url is missing or matches no supported pattern is
\* answered with status 400 and success false, and no process is ever
\* started for it.
C2_InvalidUrlRejected ==
    \A r \in Reqs :
        (phase[r] # "none" /\ req[r].url \in RejectedUrls) =>
            /\ spawned[r] = 0
            /\ phase[r] = "done"
            /\ Len(sent[r]) = 1
            /\ sent[r][1].status = 400
            /\ sent[r][1].body.success = FALSE

\* C2, its case: a video-info request for a well-formed url of an
\* unsupported platform has been answered.
C2_Witness ==
    \E r \in Reqs :
        /\ IsInfo(r) /\ phase[r] = "done"
        /\ ~Falsy(req[r].url) /\ req[r].url \in RejectedUrls
        /\ spawned[r] = 0 /\ sent[r][1].status = 400

\* C3: every download request that passed validation is eventually sent its
\* one response; it is never pending after the instant 300000 ms after its
\* process was started, and the response of a request whose process the timer
\* killed says success false.
C3_AnsweredWithinBound ==
    /\ \A r \in Reqs :
          (IsDownload(r) /\ phase[r] = "running")
              ~> (phase[r] = "done" /\ Len(sent[r]) = 1)
    /\ [](\A r \in Reqs :
            (IsDownload(r) /\ phase[r] \in {"running", "exited"}) =>
                now <= proc[r].startedAt + 300000)
    /\ [](\A r \in Reqs :
            (IsDownload(r) /\ phase[r] = "done" /\ proc[r].killed) =>
                (Len(sent[r]) = 1 /\ sent[r][1].body.success = FALSE))

\* C3, its case: a download whose process the timer killed has been answered.
C3_Witness ==
    \E r \in Reqs :
        /\ IsDownload(r) /\ phase[r] = "done" /\ proc[r].killed
        /\ now = 300000
        /\ sent[r][1].body.success = FALSE

\* the responses of /api/download to a process that ends on its own with
\* code 1
NonzeroExitResponses ==
    { LET p  == [NoProc EXCEPT !.code = 1, !.stderr = e]
          cb == DownloadCallback(p, "")
      IN  (cb \o CloseListener(1, Len(cb) > 0))[1] : e \in Stderrs }

\* C4: the response of a download the timer killed is told apart from every
\* response of a download whose tool ended with a nonzero code on its own.
C4_TimeoutReported ==
    \A r \in Reqs :
        (IsDownload(r) /\ phase[r] = "done" /\ proc[r].killed) =>
            sent[r][1] \notin NonzeroExitResponses

\* C5: a download request has started one process if its url passed
\* validation and none if it did not, at every moment from its arrival on.
C5_OneProcessPerDownload ==
    \A r \in Reqs :
        IsDownload(r) =>
            spawned[r] = IF req[r].url \in ValidatedUrls THEN 1 ELSE 0

\* C5, its case: a download whose process failed or was killed has been
\* answered, and one process was started for it.
C5_Witness ==
    \E r \in Reqs :
        /\ IsDownload(r) /\ phase[r] = "done"
        /\ proc[r].code # 0
        /\ spawned[r] = 1
        /\ sent[r][1].body.success = FALSE

\* C6: when the callbacks of a video-info process run, a tool that ended
\* with code 0 and an output that is not JSON is answered 'Failed to parse
\* video information', and a tool that failed or was killed is answered
\* 'Failed to fetch video information'.
C6_ParseFailureDistinct ==
    [][\A r \in Reqs :
          (IsInfo(r) /\ phase[r] = "exited" /\ phase'[r] = "done") =>
              LET failed == proc[r].code # 0 \/ proc[r].signal # ""
                  broken == ~failed /\ JSONParse(proc[r].stdout).thrown
              IN  /\ Len(sent'[r]) = 1
                  /\ broken => /\ sent'[r][1].body.success = FALSE
                               /\ sent'[r][1].body.message = "Failed to parse video information"
                  /\ failed => /\ sent'[r][1].body.success = FALSE
                               /\ sent'[r][1].body.message = "Failed to fetch video information"
      ]_vars

\* C6, its case: a video-info request whose tool ended with code 0 has been
\* answered with the parse failure.
C6_Witness ==
    \E r \in Reqs :
        /\ IsInfo(r) /\ phase[r] = "done"
        /\ proc[r].code = 0 /\ proc[r].signal = ""
        /\ ~sent[r][1].body.success
        /\ sent[r][1].body.message = "Failed to parse video information"

\* C7: when the callbacks of a download process run after the tool ended
\* with code 0 and no entry of the directory begins with the content id, the
\* response is success false with 'Downloaded file not found'; and a
\* response that says success names an entry the directory holds.
C7_ArtifactLookup ==
    [][\A r \in Reqs :
          (IsDownload(r) /\ phase[r] = "exited" /\ phase'[r] = "done") =>
              LET names == {f.name : f \in dir}
                  ok    == proc[r].code = 0 /\ proc[r].signal = ""
                  none  == \A n \in names : ~StartsWith(n, req[r].videoId)
              IN  /\ (ok /\ none) =>
                        /\ Len(sent'[r]) = 1
                        /\ sent'[r][1].body.success = FALSE
                        /\ sent'[r][1].body.message = "Downloaded file not found"
                  /\ \A k \in 1..Len(sent'[r]) :
                        sent'[r][k].body.success =>
                            /\ sent'[r][k].body.filename \in names
                            /\ dir' = dir
      ]_vars

\* C7, its case: a download whose tool ended with code 0 has been answered
\* 'Downloaded file not found'.
C7_Witness ==
    \E r \in Reqs :
        /\ IsDownload(r) /\ phase[r] = "done"
        /\ proc[r].code = 0 /\ proc[r].signal = ""
        /\ sent[r][1].body.message = "Downloaded file not found"

\* C8: a run of /api/cleanup removes the entries older than 3600000 ms and no
\* other, and its message carries the number of entries removed.
C8_CleanupRemovesOld ==
    [][Cleanup =>
          /\ dir' = {f \in dir : now - f.mtime <= 3600000}
          /\ sweep'.response.body.success = TRUE
          /\ sweep'.response.body.message =
                "Cleaned up " \o ToString(Cardinality(dir) - Cardinality(dir')) \o " old files"
      ]_vars

\* C8, its case: a run has removed one entry and left a newer one.
C8_Witness ==
    /\ sweep.ran
    /\ sweep.response.body.message = "Cleaned up 1 old files"
    /\ dir # {}
    /\ \A f \in dir : now - f.mtime <= 3600000

\* C9: a run of /api/cleanup that follows another, no process having written
\* to the directory and no entry having grown older than the cleanup age in
\* between, leaves the directory as it is and reports 0 entries removed.
C9_CleanupIdempotent ==
    [][(Cleanup /\ sweep.ran) =>
          /\ dir' = dir
          /\ sweep'.response.body.message = "Cleaned up 0 old files"
      ]_vars

\* C9, its case: a second run has been made on a directory that holds an
\* entry.
C9_Witness ==
    /\ sweep.again
    /\ dir # {}
    /\ sweep.response.body.message = "Cleaned up 0 old files"

\* the names the entries of the directory may have
EntryNames ==
    {f.name : f \in UNION InitialDirs}
        \cup { ReplaceFirst(outputTemplate(extractVideoId(b.url).id, b.format, t), "%(ext)s", e) :
                 b \in {x \in DownloadBodies : x.url \in ValidatedUrls},
                 t \in ArrivalTimes, e \in {"mp3", "webm"} }

\* C10: an entry older than one hour is eventually removed, whether or not
\* a client calls /api/cleanup.
C10_AutomaticCleanup ==
    \A n \in EntryNames :
        (\E f \in dir : f.name = n /\ now - f.mtime > 3600000)
            ~> ~(\E f \in dir : f.name = n)

\* the ceiling of each quality label the handler knows
Heights ==
    ("2160p (4K)" :> 2160) @@ ("1440p" :> 1440) @@ ("1080p" :> 1080)
        @@ ("720p" :> 720) @@ ("480p" :> 480) @@ ("360p" :> 360)

\* C11: for a video request the selector chosen, which is the value of the
\* -f option of the command, is best[height<=N] with N the ceiling of the
\* quality label when the label is one of the six, and best otherwise.
C11_FormatSelector ==
    (pc = "BuildCommand" /\ arg.format = "video") =>
        LET expected == IF arg.quality \in DOMAIN Heights
                        THEN "best[height<=" \o ToString(Heights[arg.quality]) \o "]"
                        ELSE "best"
        IN  /\ ret.formatSelector = expected
            /\ QuotedAfter(ret.cmd, " -f \"") = expected

\* C11, its case: the command was built for a video request of quality
\* '2160p (4K)'.
C11_Witness ==
    /\ pc = "BuildCommand"
    /\ arg.format = "video" /\ arg.quality = "2160p (4K)"
    /\ ret.formatSelector = "best[height<=2160]"

\* the characters of s, as a set
Chars(s) == {CharAt(s, p) : p \in 1..Len(s)}

\* C12: the name generated is the content id, "_", a timestamp of 24
\* characters none of which is ':' or '.', ".", and mp3 for an audio request
\* or mp4 for a video request; and for an audio request the selector is the
\* audio one whatever the quality label.
C12_OutputName ==
    pc = "BuildCommand" =>
        LET ext  == IF arg.format = "audio" THEN "mp3" ELSE "mp4"
            head == arg.videoId \o "_"
            name == ret.filename
            ts   == SubSeq(name, Len(head) + 1, Len(name) - Len(ext) - 1)
        IN  /\ name = head \o ts \o "." \o ext
            /\ Len(ts) = 24
            /\ Chars(ts) \cap {":", "."} = {}
            /\ arg.format = "audio" =>
                  /\ ret.formatSelector = "bestaudio[ext=m4a]/bestaudio/best"
                  /\ QuotedAfter(ret.cmd, " -f \"") = "bestaudio[ext=m4a]/bestaudio/best"

\* C12, its case: the command was built for an audio request with a video
\* quality label, at a time whose timestamp has no zero field.
C12_Witness ==
    /\ pc = "BuildCommand"
    /\ arg.format = "audio" /\ arg.quality = "1080p" /\ arg.t = 45296789
    /\ ret.filename = arg.videoId \o "_2026-01-01T12-34-56-789Z.mp3"

\* C13: in each implementation, a string that validation reports as not
\* supported has no id extracted from it (the application's pair of
\* validators and pair of extractors included).
C13_RejectedHasNoId ==
    /\ (pc \in {"ServerClassify", "SrcClassify", "YouTubeUtilsClassify"} /\ ~ret.valid) =>
          ~ret.id.some
    /\ (pc = "AppClassify" /\ ~ret.youtube /\ ~ret.instagram) =>
          (~ret.youtubeId.some /\ ~ret.instagramId.some)

\* C13, its case: the server's functions were applied to a short link with
\* a token of nine characters; validation rejected it and no id came out.
C13_Witness ==
    /\ pc = "ServerClassify"
    /\ Text(arg) = "https://youtu.be/ABC123XYZ"
    /\ ~ret.valid
    /\ ~ret.id.some

\* the path shapes of the inputs that are YouTube's
YouTubeShapes ==
    { "youtube.com/watch?v=", "youtube.com/shorts/", "youtu.be/", "youtube.com/embed/",
      "youtube.com/v/", "youtube.com/watch?feature=share&v=" }

\* C14: a YouTube-shaped URL whose token is not of exactly 11 characters
\* (and that nothing follows) is rejected by validation and has no id
\* extracted, by the server and by the application.
C14_MalformedIdRejected ==
    (arg.kind = "url" /\ arg.shape \in YouTubeShapes /\ Len(arg.token) # 11 /\ arg.suffix = "") =>
        /\ pc = "ServerClassify" => (~ret.valid /\ ~ret.id.some)
        /\ pc = "AppClassify" => (~ret.youtube /\ ~ret.youtubeId.some)

\* the suffixes of the inputs that begin with "?" or "&"
QuerySuffixes == {q \in UrlSuffixes : q # "" /\ CharAt(q, 1) \in {"?", "&"}}

\* C15: when the base of the input is accepted with an id and the suffix
\* begins with "?" or "&", base and suffix together are accepted for the
\* same platform with the same id, by the server and by the application.
C15_QuerySuffixNeutral ==
    (arg.kind = "url" /\ arg.suffix \in QuerySuffixes) =>
        /\ (pc = "ServerClassify" /\ isValidUrl(StringUrl(arg.base))) =>
              /\ ret.valid
              /\ ret.id = extractVideoId(StringUrl(arg.base))
        /\ (pc = "AppClassify" /\ App_detectPlatform(arg.base) # "unknown") =>
              /\ ret.platform = App_detectPlatform(arg.base)
              /\ App_detectPlatform(arg.base) = "youtube" =>
                    ret.youtubeId = App_extractYouTubeId(arg.base)
              /\ App_detectPlatform(arg.base) = "instagram" =>
                    ret.instagramId = App_extractInstagramId(arg.base)

\* C16: every string the application's isInstagramUrl accepts has an id
\* extracted by extractInstagramId.
C16_InstagramIdExtracted ==
    (pc = "AppClassify" /\ ret.instagram) => ret.instagramId.some

\* C17: the platform of the VideoInfo the server sends is 'youtube' when the
\* url matched one of the three YouTube patterns and 'instagram' when it
\* matched the Instagram pattern only.
C17_PlatformAgrees ==
    \A r \in Reqs :
        (IsInfo(r) /\ phase[r] = "done" /\ Len(sent[r]) = 1 /\ sent[r][1].body.success) =>
            sent[r][1].body.videoInfo.platform =
                IF \E pat \in {YtWatchPattern, YtShortsPattern, YtShortLinkPattern} :
                      RegexTest(UrlText(req[r].url), pat)
                THEN "youtube" ELSE "instagram"

\* C18: no string is accepted both by isYouTubeUrl and by isInstagramUrl.
C18_PlatformsExclusive ==
    pc = "AppClassify" => ~(ret.youtube /\ ret.instagram)

\* the backend call rejected or answered with a status that is not OK
Degraded(f) == f.kind = "rejects" \/ ~f.ok

\* the id the application extracts from the url for its platform
IdFromUrl(url) ==
    IF App_detectPlatform(url) = "youtube" THEN App_extractYouTubeId(url)
    ELSE App_extractInstagramId(url)

\* C19: when the backend call rejects or answers with a status that is not
\* OK, getVideoInfo of the clients resolves to a VideoInfo whose platform is
\* 'youtube' or 'instagram', whose id is the one extracted from the url and
\* whose other fields are the placeholders.
C19_DegradedInfoResolves ==
    (pc \in {"Src_getVideoInfo", "App_getVideoInfo"} /\ Degraded(arg.fetch)) =>
        /\ ret.state = "resolved"
        /\ ret.value.platform \in {"youtube", "instagram"}
        /\ IdFromUrl(arg.url).some
        /\ ret.value.id = IdFromUrl(arg.url).id
        /\ ret.value.title = "Video Title (Info not available)"
        /\ ret.value.duration = "00:00"
        /\ ret.value.uploader = "Unknown"
        /\ ret.value.formats = <<>>

\* the download failed at the backend: fetch rejected, the status is not
\* OK, or the body says success: false
BackendFailed(f) == f.kind = "rejects" \/ ~f.ok \/ (f.body.parses /\ ~f.body.data.success)

\* C20: downloadVideo of the clients never rejects, and a download that
\* failed at the backend resolves to a result with success: false.
C20_DownloadNeverRejects ==
    pc \in {"Src_downloadVideo", "App_downloadVideo", "Part1_downloadVideo"} =>
        /\ ret.state = "resolved"
        /\ BackendFailed(arg.fetch) => ~ret.value.success

\* the video quality labels the form offers
videoQualities == <<"2160p (4K)", "1440p", "1080p", "720p", "480p", "360p", "240p">>

\* the pixel count a label of the form names
LabelPixels ==
    ("2160p (4K)" :> 2160) @@ ("1440p" :> 1440) @@ ("1080p" :> 1080) @@ ("720p" :> 720)
        @@ ("480p" :> 480) @@ ("360p" :> 360) @@ ("240p" :> 240)

\* C30: for a video request with one of the labels the form offers, the
\* selector is best[height<=N] with N the pixel count of the label.
C30_FormLabelsHaveCeilings ==
    (pc = "BuildCommand" /\ arg.format = "video"
        /\ \E i \in 1..Len(videoQualities) : videoQualities[i] = arg.quality) =>
        ret.formatSelector = "best[height<=" \o ToString(LabelPixels[arg.quality]) \o "]"

\* C21: when the backend failed and no service gave a url, downloadVideo of
\* the application resolves to a result with success: false (first variant:
\* neither tryYouTubeDirectUrl nor the public API has a url; second variant:
\* every service of FALLBACK_SERVICES answers with none).
C21_NoUrlNoSuccess ==
    /\ (pc = "App_downloadVideo" /\ BackendFailed(arg.fetch)
          /\ arg.api = ""
          /\ (App_extractYouTubeId(arg.request.url).some =>
                App_tryYouTubeDirectUrl(App_extractYouTubeId(arg.request.url).id) = "")) =>
            (ret.state = "resolved" /\ ~ret.value.success)
    /\ (pc = "App2_downloadVideo" /\ BackendFailed(arg.fetch)
          /\ \A i \in 1..Len(arg.answers) : arg.answers[i] = "") =>
            (ret.state = "resolved" /\ ~ret.value.success)

\* asked is the beginning of list: its services once each, in its order
IsPrefix(asked, list) ==
    /\ Len(asked) <= Len(list)
    /\ \A i \in 1..Len(asked) : asked[i] = list[i]

AnsweredWith(f, field) ==
    /\ f.kind = "response" /\ f.ok /\ f.body.parses /\ f.body.data.success
    /\ IF field = "videoInfo" THEN f.body.data.videoInfo # Undefined
                            ELSE f.body.data[field] # ""

\* C26: when the backend answers {success: true, downloadUrl, filename},
\* downloadVideo of the form's client has the file saved, reports success
\* and gives the server's downloadUrl as its downloadUrl.
C26_BackendFileSaved ==
    (pc = "Src_downloadVideo" /\ AnsweredWith(arg.fetch, "downloadUrl")) =>
        /\ ret.state = "resolved" /\ ret.value.success
        /\ ret.saves # <<>>
        /\ ret.value.downloadUrl = arg.fetch.body.data.downloadUrl

\* C27: when the backend answers {success: true, videoInfo}, getVideoInfo
\* of the form's client resolves to that videoInfo; and when the form says
\* that the video information was loaded, its videoInfo is a VideoInfo.
C27_InfoReachesForm ==
    /\ (pc = "Src_getVideoInfo" /\ AnsweredWith(arg.fetch, "videoInfo")) =>
          (ret.state = "resolved" /\ ret.value = arg.fetch.body.data.videoInfo)
    /\ (pc = "fetchVideoInfo"
          /\ ret.status.message = "Video information loaded successfully!") =>
          ret.videoInfo \notin {Null, Undefined}

\* C23: the file a successful answer of /api/download names is the file the
\* process of that request wrote.
C23_OwnArtifactNamed ==
    \A r \in Reqs :
        (IsDownload(r) /\ phase[r] = "done" /\ Len(sent[r]) = 1 /\ sent[r][1].body.success
            /\ proc[r].outfile # "") =>
            sent[r][1].body.filename = proc[r].outfile

\* C24: the command built for a url that passed validation is, as the shell
\* reads it, the one invocation of the tool: no operator of the shell, the
\* six words of the invocation, and the url as the last of them.
C24_UrlIsOneArgument ==
    (pc = "ServerClassify" /\ ret.valid) =>
        /\ ShellOperators(ret.cmd) = {}
        /\ Cardinality(WordBreaks(ret.cmd)) = 5
        /\ LastQuotedWord(ret.cmd) = Text(arg)

\* request r has started its download and has not been answered
InFlight(r) == IsDownload(r) /\ phase[r] \in {"running", "exited"}

\* C25: the file the process of a download request has written is in the
\* directory for as long as the request has not been answered, whatever
\* runs of /api/cleanup happen meanwhile.
C25_InFlightFileKept ==
    \A r \in Reqs :
        (InFlight(r) /\ proc[r].outfile # "") =>
            \E f \in dir : f.name = proc[r].outfile

\* C25, its case: /api/cleanup ran and unlinked an old entry while a
\* request whose process has written its file was not answered yet.
C25_Witness ==
    \E r \in Reqs :
        /\ InFlight(r) /\ proc[r].outfile # ""
        /\ sweep.ran
        /\ sweep.response.body.message = "Cleaned up 1 old files"
        /\ \E f \in dir : f.name = proc[r].outfile

\* C28: once downloadVideo of a download has settled its interval timer
\* does nothing more: the progress it counts, which every onProgress call
\* of the timer raises, stays as it is.
C28_TimerStoppedWhenSettled ==
    [][\A d \in Downloads :
          download[d].stage = "settled" => download'[d].progress = download[d].progress]_vars

\* C29: when the 3-second timer of a download runs while a later download
\* is under way, the progress shown stays as it is.
C29_ResetSparesLaterDownload ==
    [][\A d \in Downloads :
          (d \in resetTimers /\ d \notin resetTimers'
              /\ \E e \in Downloads : e > d /\ download[e].stage = "fetching") =>
              downloadProgress' = downloadProgress]_vars
=============================================================================
